---- MODULE Spec2Model ----
(***************************************************************************)
(* State-machine model of the two entry scripts of workin-wheel:           *)
(*   reader.py    - calendar mode: the target comes from the next calendar *)
(*                  event, one pulse of 1/6 per station, a pulse failure   *)
(*                  is returned to the main loop ("Policy B").             *)
(*   load_test.py - random mode: the target is random.randint(0,5), two    *)
(*                  pulses of 1/12 per station, a pulse failure is handled *)
(*                  inside rotate_with_retry ("Policy A").                 *)
(* One step of the model is one awaited call (a connect attempt, a         *)
(* set_power call, a target poll, the sleep) together with the Python code *)
(* that runs up to the next awaited call.                                  *)
(***************************************************************************)
EXTENDS Integers, FiniteSets, Sequences, TLC

(* ---------------------------- bounds ----------------------------------- *)

\* Session handles are numbered 1..MaxSessions; a new handle is always
\* different from the one created before it.
MaxSessions == 3

\* The reconnect loop of rotate_with_retry is unbounded; its iteration
\* counter is recorded up to MaxRetries.
MaxRetries == 3

(* ------------------------ program constants ---------------------------- *)

\* Python's None: the value of an unassigned estimate and of "no target".
None == -1

\* The empty session slot (robot = None).
NoSession == 0

WORK_FROM_HOME == 1
GOING_TO_EVENT == 2
AVAILABLE == 4

\* reader.connect: for x in range(50)
ConnectTries == 50

\* load_test.main: n_try = 10
NTry == 10

\* for i in range(6) / for _ in range(6)
HomingPulses == 6

\* random.randint(0,5)
MaxPosition == 5

\* current_wheel_position = 0 after homing
HomePosition == 0

Positions == 0..MaxPosition

Modes == {"calendar", "random"}

(* --------------------------- pure helpers ------------------------------ *)

Abs(n) == IF n < 0 THEN -n ELSE n

\* math.copysign(1, slices), as used through int(direction)
copysign(n) == IF n < 0 THEN -1 ELSE 1

\* Variant of plan_slices: the signed distance the short way round the ring.
plan_slices_shortest(cur, target) ==
    IF cur - target > 3 THEN cur - target - 6
    ELSE IF cur - target < -3 THEN cur - target + 6
    ELSE cur - target

\* slices = (current_wheel_position - next_wheel_position)
plan_slices(cur, target) == cur - target

\* Pulses per station: range(abs(slices)) in reader.py,
\* range(abs(slices)*2) in load_test.py.
granularity(m) == IF m = "calendar" THEN 1 ELSE 2

\* Variant of slice_count: the loop stops one pulse early.
slice_count_short(m, s) == Abs(s) * granularity(m) - 1

\* The bound of the pulse loop of a plan.
slice_count(m, s) == Abs(s) * granularity(m)

\* Variant of applyOptimistic: the estimate steps away from the target.
applyOptimistic_away(cur, dir) == cur + dir

\* current_wheel_position -= int(direction)
applyOptimistic(cur, dir) == cur - dir

\* Lines 176-181 of reader.py: where main goes once control_wheel has
\* returned (position, e): it sleeps only when e is None.
\* Variant: main sleeps after every cycle.
after_control_wheel_always_sleep(e) == "sleep"

\* Variant: main never sleeps and polls again at once.
after_control_wheel_never_sleep(e) == "main_top"

after_control_wheel(e) == IF e THEN "main_top" ELSE "sleep"

\* Variant of pulse_power: the direction is left out of the power.
pulse_power_no_direction(m, dir) == IF m = "calendar" THEN 2 ELSE -1

\* Power argument of set_power, in twelfths of a revolution:
\* 1/6*direction in reader.py, -1/12*direction in load_test.py.
pulse_power(m, dir) == IF m = "calendar" THEN 2 * dir ELSE -1 * dir

\* Power of a homing pulse: 1/6 in reader.py, -1/12 in load_test.py.
homing_power(m) == IF m = "calendar" THEN 2 ELSE -1

\* event_type_to_wheel_position.get(event_type)
event_type_to_wheel_position(t) ==
    CASE t = "outOfOffice" -> 0
      [] t = "focusTime"   -> 3
      [] t = "default"     -> 5
      [] OTHER             -> None

EventTypes == {"default", "focusTime", "outOfOffice", "workingLocation"}

\* What the calendar API can answer: an HttpError, an empty list, or a first
\* event with its type, whether a workingLocation event is "Office", and
\* where its start lies ("later": >= 5 minutes ahead, "soon": ahead by less,
\* "past": not ahead).
Responses ==
    [error : BOOLEAN, items : {0, 1}, eventType : EventTypes,
     office : BOOLEAN, start : {"past", "soon", "later"}]

get_next_wheel_position(r) ==
    IF r.error THEN None
    ELSE IF r.items = 0 THEN None
    ELSE IF r.eventType = "workingLocation"
         THEN IF ~r.office THEN WORK_FROM_HOME
              ELSE event_type_to_wheel_position(r.eventType)
    ELSE IF r.start = "later" THEN AVAILABLE
    ELSE IF r.start = "soon" THEN GOING_TO_EVENT
    ELSE event_type_to_wheel_position(r.eventType)

\* The handle RobotClient.at_address returns: never the previous one.
new_session(last) == (last % MaxSessions) + 1

(* ------------------------------ state ---------------------------------- *)

VARIABLES
    mode,          \* which script runs
    pc,            \* position of the script
    gateway,       \* environment: does at_address succeed now ("up"/"down")
    robot,         \* main's session slot (robot / smart_machine)
    sessions,      \* the last handle at_address returned (0: none yet)
    wheel_motor,   \* the session the motor handle in use belongs to
    x,             \* connect's loop variable: failed attempts of this call
    n_try,         \* load_test.main's n_try
    i,             \* index of the running pulse loop
    slices,        \* slices of the plan
    direction,     \* direction of the plan
    current,       \* current_wheel_position (None before homing is done)
    next,          \* next_wheel_position of the last poll
    ex,            \* control_wheel's last returned exception is not None
    planStart,     \* history: the estimate when the last target was polled
    attempted,     \* history: set_power calls made since the last poll
    failedAt,      \* history: index (1..) of the failed pulse of the plan
    power,         \* history: last power sent, in twelfths (0: none sent)
    polled,        \* history: the target source has been asked
    lostSession,   \* history: the session the last failure was detected
                   \* on (set_power raised over it, or a handler closed it)
    retries        \* history: iterations of the reconnect loop, capped

vars == <<mode, pc, gateway, robot, sessions, wheel_motor, x, n_try, i,
          slices, direction, current, next, ex, planStart, attempted,
          failedAt, power, polled, lostSession, retries>>

Init ==
    /\ mode \in Modes
    /\ pc = IF mode = "calendar" THEN "connect" ELSE "lt_connect"
    /\ gateway \in {"up", "down"}
    /\ robot = NoSession
    /\ sessions = 0
    /\ wheel_motor = NoSession
    /\ x = 0
    /\ n_try = NTry
    /\ i = 0
    /\ slices = 0
    /\ direction = 1
    /\ current = None
    /\ next = None
    /\ ex = FALSE
    /\ planStart = None
    /\ attempted = 0
    /\ failedAt = 0
    /\ power = 0
    /\ polled = FALSE
    /\ lostSession = NoSession
    /\ retries = 0

(* --------------------------- environment ------------------------------- *)

\* The remote controller becomes reachable or unreachable at any time.
GatewayFlip ==
    /\ gateway' = IF gateway = "up" THEN "down" ELSE "up"
    /\ UNCHANGED <<mode, pc, robot, sessions, wheel_motor, x, n_try, i,
                   slices, direction, current, next, ex, planStart,
                   attempted, failedAt, power, polled, retries,
                   lostSession>>

(* ------------------------ reader.py: connect --------------------------- *)

\* One iteration of connect's loop at the call site whose pc is `at`:
\* at_address returns (go to `ok`) or raises; after ConnectTries failures
\* connect raises (go to `raised`).
connect(at, ok, raised) ==
    /\ pc = at
    /\ x < ConnectTries
    /\ IF gateway = "up"
       THEN /\ sessions' = new_session(sessions)
            /\ robot' = new_session(sessions)
            /\ x' = 0
            /\ pc' = ok
       ELSE /\ x' = x + 1
            /\ pc' = IF x + 1 < ConnectTries THEN at ELSE raised
            /\ UNCHANGED <<robot, sessions>>
    /\ UNCHANGED <<mode, gateway, wheel_motor, n_try, i, slices, direction,
                   current, next, ex, planStart, attempted, failedAt, power,
                   polled, retries,
                   lostSession>>

\* except Exception: await robot.close(); robot = None; continue
\* Where the handler of the loop whose head is `top` leaves the script: with
\* robot = None, robot.close() raises AttributeError inside the handler,
\* nothing catches it and the script ends. close() on a held session and
\* Motor.from_robot on a held session are taken to return normally.
except_handler(top) == IF robot = NoSession THEN "crashed" ELSE top

\* robot = await connect(...) at line 150: an exception here is not caught.
Connecting == connect("connect", "home_top", "fatal")

(* ------------------------ reader.py: homing ---------------------------- *)

\* Lines 153-156: reconnect if the slot is empty, else take the motor handle
\* and start the six homing pulses.
HomingTop ==
    /\ pc = "home_top"
    /\ IF robot = NoSession
       THEN /\ pc' = "home_connect"
            /\ x' = 0
            /\ UNCHANGED <<wheel_motor, i>>
       ELSE /\ pc' = "home_pulse"
            /\ wheel_motor' = robot
            /\ i' = 0
            /\ x' = x
    /\ UNCHANGED <<mode, gateway, robot, sessions, n_try, slices, direction,
                   current, next, ex, planStart, attempted, failedAt, power,
                   polled, retries,
                   lostSession>>

\* Line 155; connect raising is caught at line 160.
HomingConnect == connect("home_connect", "home_top", except_handler("home_top"))

\* Variant of HomingPulse: the estimate after homing is the number of homing
\* pulses sent instead of the home position.
HomingPulse_counts_up ==
    /\ pc = "home_pulse"
    /\ i < HomingPulses
    /\ power' = homing_power(mode)
    /\ \E ok \in BOOLEAN :
         IF ok
         THEN /\ i' = i + 1
              /\ IF i + 1 = HomingPulses
                 THEN /\ current' = i + 1
                      /\ pc' = "main_top"
                 ELSE /\ current' = current
                      /\ pc' = "home_pulse"
              /\ robot' = robot
              /\ lostSession' = lostSession
         ELSE /\ pc' = except_handler("home_top")
              /\ robot' = NoSession
              /\ lostSession' = wheel_motor
              /\ UNCHANGED <<i, current>>
    /\ UNCHANGED <<mode, gateway, sessions, wheel_motor, x, n_try, slices,
                   direction, next, ex, planStart, attempted, failedAt,
                   polled, retries>>

\* Variant of HomingPulse: a failed homing pulse is skipped and the loop goes
\* on with the next pulse on the same session.
HomingPulse_skips_failure ==
    /\ pc = "home_pulse"
    /\ i < HomingPulses
    /\ power' = homing_power(mode)
    /\ \E ok \in BOOLEAN :
         /\ i' = i + 1
         /\ IF i + 1 = HomingPulses
            THEN /\ current' = HomePosition
                 /\ pc' = "main_top"
            ELSE /\ current' = current
                 /\ pc' = "home_pulse"
         /\ robot' = robot
         /\ lostSession' = IF ok THEN lostSession ELSE wheel_motor
    /\ UNCHANGED <<mode, gateway, sessions, wheel_motor, x, n_try, slices,
                   direction, next, ex, planStart, attempted, failedAt,
                   polled, retries>>

\* Line 158: one homing pulse. After the sixth success: break, and
\* current_wheel_position = 0 (line 166). A failure runs the handler of
\* lines 160-164.
HomingPulse ==
    /\ pc = "home_pulse"
    /\ i < HomingPulses
    /\ power' = homing_power(mode)
    /\ \E ok \in BOOLEAN :
         IF ok
         THEN /\ i' = i + 1
              /\ IF i + 1 = HomingPulses
                 THEN /\ current' = HomePosition
                      /\ pc' = "main_top"
                 ELSE /\ current' = current
                      /\ pc' = "home_pulse"
              /\ robot' = robot
              /\ lostSession' = lostSession
         ELSE /\ pc' = except_handler("home_top")
              /\ robot' = NoSession
              /\ lostSession' = wheel_motor
              /\ UNCHANGED <<i, current>>
    /\ UNCHANGED <<mode, gateway, sessions, wheel_motor, x, n_try, slices,
                   direction, next, ex, planStart, attempted, failedAt,
                   polled, retries>>

(* ----------------------- reader.py: main loop -------------------------- *)

\* Variant of LoopTop: the motor handle of the first session is kept instead
\* of being taken from the session slot on every cycle.
LoopTop_stale_motor ==
    /\ pc = "main_top"
    /\ IF robot = NoSession
       THEN /\ pc' = "main_connect"
            /\ x' = 0
            /\ wheel_motor' = wheel_motor
       ELSE /\ pc' = "poll"
            /\ wheel_motor' = wheel_motor
            /\ x' = x
    /\ UNCHANGED <<mode, gateway, robot, sessions, n_try, i, slices,
                   direction, current, next, ex, planStart, attempted,
                   failedAt, power, polled, retries,
                   lostSession>>

\* Lines 169-171 and the call of control_wheel at line 176.
LoopTop ==
    /\ pc = "main_top"
    /\ IF robot = NoSession
       THEN /\ pc' = "main_connect"
            /\ x' = 0
            /\ wheel_motor' = wheel_motor
       ELSE /\ pc' = "poll"
            /\ wheel_motor' = robot
            /\ x' = x
    /\ UNCHANGED <<mode, gateway, robot, sessions, n_try, i, slices,
                   direction, current, next, ex, planStart, attempted,
                   failedAt, power, polled, retries,
                   lostSession>>

\* Line 170; connect raising is caught at line 182.
LoopConnect == connect("main_connect", "main_top", except_handler("main_top"))

\* control_wheel, lines 122-126 (and 139 when the target equals the
\* estimate). current != None is true for every estimate, and then
\* current - None raises TypeError outside the try of line 127: it leaves
\* control_wheel and is caught at line 182, so the assignment of line 176
\* does not happen.
control_wheel_poll ==
    /\ pc = "poll"
    /\ \E r \in Responses :
         LET t == get_next_wheel_position(r) IN
         /\ next' = t
         /\ polled' = TRUE
         /\ planStart' = current
         /\ attempted' = 0
         /\ failedAt' = 0
         /\ IF current # t
            THEN IF t = None
                 THEN /\ pc' = except_handler("main_top")
                      /\ robot' = NoSession
                      /\ lostSession' = robot
                      /\ UNCHANGED <<slices, direction, i, ex>>
                 ELSE /\ slices' = plan_slices(current, t)
                      /\ direction' = copysign(plan_slices(current, t))
                      /\ i' = 0
                      /\ pc' = "move"
                      /\ UNCHANGED <<robot, ex, lostSession>>
            ELSE /\ ex' = FALSE
                 /\ pc' = after_control_wheel(FALSE)
                 /\ UNCHANGED <<slices, direction, i, robot, lostSession>>
    /\ UNCHANGED <<mode, gateway, sessions, wheel_motor, x, n_try, current,
                   power, retries>>

\* control_wheel, lines 132-139: one pulse of the plan. A successful pulse
\* is followed by the update of the estimate; when set_power raises, the
\* update of line 134 is skipped and (current, e) is returned at once. Main
\* (lines 176-181) sleeps only when no exception was returned.
control_wheel_pulse ==
    /\ pc = "move"
    /\ i < slice_count(mode, slices)
    /\ power' = pulse_power(mode, direction)
    /\ attempted' = attempted + 1
    /\ \E ok \in BOOLEAN :
         IF ok
         THEN /\ current' = applyOptimistic(current, direction)
              /\ i' = i + 1
              /\ IF i + 1 = slice_count(mode, slices)
                 THEN /\ ex' = FALSE
                      /\ pc' = after_control_wheel(FALSE)
                 ELSE /\ ex' = ex
                      /\ pc' = "move"
              /\ failedAt' = failedAt
              /\ lostSession' = lostSession
         ELSE /\ failedAt' = i + 1
              /\ lostSession' = wheel_motor
              /\ ex' = TRUE
              /\ pc' = after_control_wheel(TRUE)
              /\ UNCHANGED <<current, i>>
    /\ UNCHANGED <<mode, gateway, robot, sessions, wheel_motor, x, n_try,
                   slices, direction, next, planStart, polled, retries>>

\* time.sleep(15), line 181.
Sleep ==
    /\ pc = "sleep"
    /\ pc' = "main_top"
    /\ UNCHANGED <<mode, gateway, robot, sessions, wheel_motor, x, n_try, i,
                   slices, direction, current, next, ex, planStart,
                   attempted, failedAt, power, polled, retries,
                   lostSession>>

(* ---------------------- load_test.py: main ----------------------------- *)

\* Variant of LtConnecting: the test of n_try after the loop is missing and
\* the script goes on to homing without a session.
LtConnecting_no_exit ==
    /\ pc = "lt_connect"
    /\ n_try > 0
    /\ IF gateway = "up"
       THEN /\ sessions' = new_session(sessions)
            /\ robot' = new_session(sessions)
            /\ n_try' = n_try
            /\ i' = 0
            /\ pc' = "lt_home"
       ELSE /\ n_try' = n_try - 1
            /\ pc' = IF n_try - 1 = 0 THEN "lt_home" ELSE "lt_connect"
            /\ UNCHANGED <<robot, sessions, i>>
    /\ UNCHANGED <<mode, gateway, wheel_motor, x, slices, direction, current,
                   next, ex, planStart, attempted, failedAt, power, polled,
                   retries,
                   lostSession>>

\* Lines 30-39: one iteration of `while n_try`. A success breaks out with
\* n_try still positive; the tenth failure ends the loop with n_try = 0 and
\* the script exits.
LtConnecting ==
    /\ pc = "lt_connect"
    /\ n_try > 0
    /\ IF gateway = "up"
       THEN /\ sessions' = new_session(sessions)
            /\ robot' = new_session(sessions)
            /\ n_try' = n_try
            /\ i' = 0
            /\ pc' = "lt_home"
       ELSE /\ n_try' = n_try - 1
            /\ pc' = IF n_try - 1 = 0 THEN "fatal" ELSE "lt_connect"
            /\ UNCHANGED <<robot, sessions, i>>
    /\ UNCHANGED <<mode, gateway, wheel_motor, x, slices, direction, current,
                   next, ex, planStart, attempted, failedAt, power, polled,
                   retries,
                   lostSession>>

\* Lines 42-45 with rotate_with_retry lines 57-59: one homing pulse. When
\* set_power raises, rotate_with_retry enters its reconnect loop.
LtHomingPulse ==
    /\ pc = "lt_home"
    /\ i < HomingPulses
    /\ wheel_motor' = robot
    /\ power' = homing_power(mode)
    /\ \E ok \in BOOLEAN :
         IF ok
         THEN /\ i' = i + 1
              /\ IF i + 1 = HomingPulses
                 THEN /\ current' = HomePosition
                      /\ pc' = "lt_idle"
                 ELSE /\ current' = current
                      /\ pc' = "lt_home"
              /\ lostSession' = lostSession
         ELSE /\ pc' = "lt_retry"
              /\ lostSession' = robot
              /\ UNCHANGED <<i, current>>
    /\ UNCHANGED <<mode, gateway, robot, sessions, x, n_try, slices,
                   direction, next, ex, planStart, attempted, failedAt,
                   polled, retries>>

\* Lines 47-51: draw the target; an equal target starts the next iteration
\* at once.
LtPoll ==
    /\ pc = "lt_idle"
    /\ \E t \in Positions :
         /\ next' = t
         /\ polled' = TRUE
         /\ planStart' = current
         /\ attempted' = 0
         /\ failedAt' = 0
         /\ IF current # t
            THEN /\ slices' = plan_slices(current, t)
                 /\ direction' = copysign(plan_slices(current, t))
                 /\ i' = 0
                 /\ pc' = "lt_move"
            ELSE /\ pc' = "lt_idle"
                 /\ UNCHANGED <<slices, direction, i>>
    /\ UNCHANGED <<mode, gateway, robot, sessions, wheel_motor, x, n_try,
                   current, ex, power, retries,
                   lostSession>>

\* Lines 52-54 with rotate_with_retry lines 57-59: one pulse of the plan.
\* The estimate is assigned once, after the last pulse (line 54).
LtMovePulse ==
    /\ pc = "lt_move"
    /\ i < slice_count(mode, slices)
    /\ wheel_motor' = robot
    /\ power' = pulse_power(mode, direction)
    /\ attempted' = attempted + 1
    /\ \E ok \in BOOLEAN :
         IF ok
         THEN /\ i' = i + 1
              /\ IF i + 1 = slice_count(mode, slices)
                 THEN /\ current' = next
                      /\ pc' = "lt_idle"
                 ELSE /\ current' = current
                      /\ pc' = "lt_move"
              /\ failedAt' = failedAt
              /\ lostSession' = lostSession
         ELSE /\ failedAt' = i + 1
              /\ lostSession' = robot
              /\ pc' = "lt_retry"
              /\ UNCHANGED <<i, current>>
    /\ UNCHANGED <<mode, gateway, robot, sessions, x, n_try, slices,
                   direction, next, ex, planStart, polled, retries>>

\* rotate_with_retry, lines 62-68: one iteration of the reconnect loop.
\* `args` is a local of main and no name of rotate_with_retry or of the
\* module: evaluating args.api_key raises NameError before connect is
\* called, `except Exception` catches it and the loop continues. The
\* iteration is the same whether the gateway is up or down and the loop is
\* never left.
rotate_with_retry_reconnect ==
    /\ pc = "lt_retry"
    /\ retries' = IF retries < MaxRetries THEN retries + 1 ELSE retries
    /\ pc' = "lt_retry"
    /\ UNCHANGED <<mode, gateway, robot, sessions, wheel_motor, x, n_try, i,
                   slices, direction, current, next, ex, planStart,
                   attempted, failedAt, power, polled,
                   lostSession>>

(* -------------------------- specification ------------------------------ *)

Next ==
    \/ GatewayFlip
    \/ Connecting
    \/ HomingTop
    \/ HomingConnect
    \/ HomingPulse
    \/ LoopTop
    \/ LoopConnect
    \/ control_wheel_poll
    \/ control_wheel_pulse
    \/ Sleep
    \/ LtConnecting
    \/ LtHomingPulse
    \/ LtPoll
    \/ LtMovePulse
    \/ rotate_with_retry_reconnect

Spec == Init /\ [][Next]_vars

(* ----------------------------- claims ---------------------------------- *)

Sign(n) == IF n > 0 THEN 1 ELSE IF n < 0 THEN -1 ELSE 0

\* A movement plan is being consumed.
InPlan == pc \in {"move", "lt_move"}

\* The cycle of the last poll has ended without a failure: the plan, if
\* any, was consumed to exhaustion.
CycleDone == pc = "sleep" \/ (pc = "lt_idle" /\ polled)

\* Before homing has completed.
HomingPcs == {"connect", "lt_connect", "home_top", "home_connect",
              "home_pulse", "lt_home"}

\* C1: the plan of (current, target) has direction sign(current - target)
\* and |current - target| * granularity pulses (granularity 1 in calendar
\* mode, 2 in random mode), never the shorter way round the ring: 0 -> 5 at
\* granularity 1 is 5 pulses in direction -1, 2 -> 5 at granularity 2 is 6
\* pulses in direction -1; a cycle whose target equals the estimate sends
\* no pulse.
C1_PlanIsSignedDistance ==
    LET g == IF mode = "calendar" THEN 1 ELSE 2
        d == planStart - next
    IN  /\ InPlan => /\ d # 0
                     /\ direction = Sign(d)
                     /\ slice_count(mode, slices) = Abs(d) * g
                     /\ attempted = i
        /\ CycleDone => attempted = Abs(d) * g
        /\ (InPlan /\ mode = "calendar" /\ planStart = 0 /\ next = 5)
               => (direction = -1 /\ slice_count(mode, slices) = 5)
        /\ (InPlan /\ mode = "random" /\ planStart = 2 /\ next = 5)
               => (direction = -1 /\ slice_count(mode, slices) = 6)

\* A plan 0 -> 5 of calendar mode has been sent to its end: five pulses.
C1_Witness ==
    /\ mode = "calendar" /\ pc = "sleep"
    /\ planStart = 0 /\ next = 5 /\ attempted = 5 /\ current = 5

\* C2 (as stated): in calendar mode, after the pulse call failed at pulse k
\* the estimate carried into the next cycle is k one-station updates away
\* from the plan's starting position.
C2_FailedPulseCounted ==
    (mode = "calendar" /\ failedAt > 0 /\ pc \in {"main_top", "poll"})
        => current = planStart - direction * failedAt

\* C3 (as stated): once the initial connection has succeeded the control
\* loop never terminates.
C3_NeverFatalAfterConnect ==
    sessions > 0 => pc \notin {"fatal", "crashed"}

\* C4 (as stated): a poll that yields no target sends no pulse, leaves the
\* estimate unchanged and leaves the session slot alone.
C4_NoTargetIsNoChange ==
    [][(pc = "poll" /\ pc' # "poll" /\ next' = None)
          => (robot' = robot /\ current' = current /\ power' = power
              /\ attempted' = 0 /\ pc' # "crashed")]_vars

\* C5 (as stated): in random mode a failed pulse k of an N-pulse plan loses
\* no pulse: a reconnect attempt made while the gateway accepts connections
\* returns to the plan at pulse k+1 without re-sending pulse k, and the loop
\* is back at Idle only after N attempts.
C5_FailureKeepsPlan ==
    /\ []((mode = "random" /\ CycleDone)
             => attempted = 2 * Abs(planStart - next))
    /\ [][(pc = "lt_retry" /\ current # None /\ gateway = "up"
           /\ retries' # retries)
             => (i' = i + 1 /\ attempted' = attempted
                 /\ pc' \in {"lt_move", "lt_idle"})]_vars

\* C6: the script ends in the fatal state only after every initial connect
\* attempt failed (50 in calendar mode, 10 in random mode) and then no pulse
\* was ever sent; without a session the script is nowhere but in the initial
\* connect or the fatal state, and the first success leaves the initial
\* connect for homing for good.
C6_FatalOnlyOnExhaustion ==
    /\ [](pc = "fatal" => /\ sessions = 0 /\ robot = NoSession
                          /\ power = 0 /\ wheel_motor = NoSession
                          /\ (mode = "calendar" => x = 50)
                          /\ (mode = "random" => n_try = 0))
    /\ [](sessions = 0 => /\ pc \in {"connect", "lt_connect", "fatal"}
                          /\ power = 0
                          /\ x < 50 \/ pc = "fatal"
                          /\ n_try > 0 \/ pc = "fatal")
    /\ [](sessions > 0 => pc \notin {"connect", "lt_connect", "fatal"})
    /\ [][(pc \in {"connect", "lt_connect"} /\ sessions' # sessions)
             => pc' \in {"home_top", "lt_home"}]_vars

\* Every initial connect attempt has failed.
C6_Witness == pc = "fatal" /\ (x = 50 \/ n_try = 0)

\* C7: when homing completes the estimate is 0 and the loop is at Idle, also
\* after failures and reconnects during homing; before that no target is
\* polled and no plan pulse is sent.
C7_HomingEndsAtZero ==
    /\ []((pc \in HomingPcs \/ current = None)
             => (~polled /\ attempted = 0 /\ current = None))
    /\ []((pc \in {"main_top", "lt_idle"} /\ ~polled) => current = 0)
    /\ [][(pc \in HomingPcs /\ pc' \notin HomingPcs
           /\ pc' \notin {"fatal", "crashed", "lt_retry"})
             => (current' = 0 /\ pc' \in {"main_top", "lt_idle"}
                 /\ i' = 6)]_vars

\* Homing has completed on a session obtained by a reconnect.
C7_Witness ==
    /\ pc = "main_top" /\ ~polled /\ current = 0
    /\ sessions >= 2 /\ robot = sessions

\* C8: once homing has assigned it, the estimate is in 0..5 (before that
\* the variable is not assigned).
C8_EstimateInRange ==
    (pc \notin (HomingPcs \cup {"fatal", "crashed", "lt_retry"})
         \/ current # None)
        => current \in 0..5

\* The estimate after a failed pulse and at least one reconnect.
C8_Witness ==
    /\ mode = "calendar" /\ pc = "main_top" /\ failedAt = 2
    /\ sessions >= 2 /\ current \in 0..5

RECURSIVE ApplyTimes(_, _, _)
ApplyTimes(cur, dir, n) ==
    IF n = 0 THEN cur ELSE ApplyTimes(applyOptimistic(cur, dir), dir, n - 1)

\* C9: when a plan has been consumed to exhaustion the estimate equals the
\* target; in calendar mode, where the estimate is stepped per pulse, that
\* is the starting estimate stepped slice_count times in the plan's
\* direction.
C9_ExhaustedPlanReachesTarget ==
    CycleDone =>
        /\ current = next
        /\ (mode = "calendar" /\ planStart # next)
              => ApplyTimes(planStart, direction, attempted) = next

\* A plan of several pulses has been consumed to exhaustion.
C9_Witness ==
    /\ mode = "calendar" /\ pc = "sleep"
    /\ planStart = 4 /\ next = 1 /\ attempted = 3 /\ current = 1

\* C10: in calendar mode, after pulse k of a plan failed no further pulse of
\* that plan is sent, the loop does not sleep, the next step of the loop
\* polls the target source, and the plan then computed starts from the
\* carried-over estimate.
C10_FailureEndsPlan ==
    /\ []((mode = "calendar" /\ failedAt > 0)
             => (pc \in {"main_top", "poll"} /\ attempted = failedAt /\ ex))
    /\ [][(mode = "calendar" /\ failedAt > 0 /\ pc = "main_top"
           /\ pc' # "main_top")
             => (pc' = "poll" /\ current' = current
                 /\ attempted' = attempted)]_vars
    /\ [][(pc = "poll" /\ pc' = "move")
             => (planStart' = current /\ current' = current
                 /\ slices' = current - next' /\ i' = 0
                 /\ attempted' = 0)]_vars

\* The loop is about to poll again after pulse k < N of a plan failed.
C10_Witness ==
    /\ mode = "calendar" /\ pc = "poll"
    /\ failedAt > 0 /\ failedAt < slice_count(mode, slices)

\* A step in which set_power is called (every such step advances the pulse
\* loop or leaves it).
PulseStep ==
    /\ pc \in {"home_pulse", "move", "lt_home", "lt_move"}
    /\ (i' # i \/ pc' # pc)

\* C11 (as stated): in calendar mode, once a pulse of a plan has failed the
\* session slot is emptied, so that the next cycle connects before any
\* further pulse, and no pulse is sent over the session the failure was
\* detected on.
C11_FailureDiscardsSession ==
    /\ []((mode = "calendar" /\ failedAt > 0) => robot = NoSession)
    /\ [][(mode = "calendar" /\ PulseStep) => wheel_motor # lostSession]_vars

\* C12 (as stated): while a plan is consumed, every pulse attempt moves the
\* estimate by one pulse's worth of progress toward the target (one station
\* per pulse in calendar mode), never away from it and never by more than
\* one station.
C12_EstimateStepsTowardTarget ==
    [][(InPlan /\ PulseStep)
          => /\ Abs(current' - current) <= 1
             /\ Abs(current' - next) <= Abs(current - next)
             /\ (mode = "calendar"
                    => Abs(current' - next) = Abs(current - next) - 1)]_vars

\* C14 (as stated): in random mode, an iteration of the reconnect loop of
\* rotate_with_retry made while the gateway accepts connections ends the
\* loop: rotate_with_retry returns with a new session.
C14_ReconnectLoopEnds ==
    [][(pc = "lt_retry" /\ gateway = "up" /\ retries' # retries)
          => (pc' # "lt_retry" /\ sessions' # sessions)]_vars

\* C15: once failure handling has connected a new session, the session slot
\* holds that session and every pulse sent from then on goes over it, not
\* over the session the failure was detected on.
C15_PulsesUseNewSession ==
    /\ [](robot # NoSession => robot = sessions)
    /\ [][sessions' # sessions => robot' = sessions']_vars
    /\ [][(PulseStep /\ lostSession # NoSession /\ sessions # lostSession)
             => (robot = sessions /\ wheel_motor' = sessions
                 /\ wheel_motor' # lostSession)]_vars

\* A pulse of a plan has been sent over a session connected after a failure.
C15_Witness ==
    /\ pc = "move" /\ attempted >= 1
    /\ lostSession # NoSession /\ sessions # lostSession
    /\ robot = sessions /\ wheel_motor = sessions

\* C16: in calendar mode a poll whose target equals the estimate sends no
\* pulse and leaves the estimate and the session slot unchanged, and the
\* target source is not polled again before the sleep between cycles has
\* been taken.
C16_EqualTargetSleeps ==
    /\ [][(pc = "poll" /\ pc' # "poll" /\ next' = current)
             => (pc' = "sleep" /\ current' = current /\ robot' = robot
                 /\ wheel_motor' = wheel_motor /\ power' = power
                 /\ attempted' = 0 /\ ~ex')]_vars
    /\ [][(pc = "sleep" /\ pc' # "sleep")
             => (pc' = "main_top" /\ current' = current /\ robot' = robot
                 /\ power' = power /\ attempted' = attempted)]_vars
    /\ []((mode = "calendar" /\ pc \in {"main_top", "poll"} /\ polled
           /\ next = current /\ attempted = 0 /\ ~ex /\ planStart = current)
             => robot # NoSession)

\* The loop sleeps after a poll whose target equalled the estimate.
C16_Witness ==
    /\ mode = "calendar" /\ pc = "sleep"
    /\ planStart = 4 /\ next = 4 /\ current = 4 /\ attempted = 0

\* C17 (as stated): in both modes every pulse of a plan carries a power whose
\* sign is the sign of the plan's direction, sign(current - target), and all
\* pulses of a plan carry the same power.
C17_PowerSignIsDirection ==
    /\ [](attempted > 0 => Sign(power) = Sign(planStart - next))
    /\ [][(InPlan /\ PulseStep /\ attempted > 0) => power' = power]_vars

\* C17 (amended): every pulse of a plan carries the power direction * 1/6 in
\* calendar mode and -direction * 1/12 in random mode (in twelfths: 2 *
\* direction and -direction), direction = sign(current - target): the sign of
\* the power is the sign of the direction in calendar mode and the opposite
\* sign in random mode, and all pulses of a plan carry the same power.
C17_PowerByMode ==
    /\ [](attempted > 0
             => power = IF mode = "calendar"
                        THEN 2 * Sign(planStart - next)
                        ELSE -Sign(planStart - next))
    /\ [][(InPlan /\ PulseStep /\ attempted > 0) => power' = power]_vars

\* Two pulses of a random-mode plan of direction +1 have been sent.
C17_Witness ==
    /\ mode = "random" /\ pc = "lt_move" /\ attempted >= 2
    /\ planStart > next /\ direction = 1 /\ power = -1

\* The homing loop of reader.py.
CalendarHomingPcs == {"home_top", "home_connect", "home_pulse"}

\* C18: in calendar mode homing is left for Idle only by the sixth of six
\* consecutive successful pulses on one session; a failed homing pulse
\* closes the session, the loop then reconnects, and the pulses on the new
\* session start again from the first.
C18_HomingNeedsSixInARow ==
    /\ [](pc = "home_pulse"
             => (robot # NoSession /\ robot = sessions
                 /\ wheel_motor = robot /\ i < 6))
    /\ [][(pc \in CalendarHomingPcs /\ pc' = "main_top")
             => (pc = "home_pulse" /\ i = 5 /\ i' = 6 /\ robot' = robot
                 /\ lostSession' = lostSession)]_vars
    /\ [][(pc = "home_pulse" /\ pc' = "home_pulse" /\ i' # i)
             => (i' = i + 1 /\ robot' = robot
                 /\ wheel_motor' = wheel_motor
                 /\ lostSession' = lostSession)]_vars
    /\ [][(pc = "home_pulse" /\ lostSession' # lostSession)
             => (pc' = "home_top" /\ robot' = NoSession
                 /\ lostSession' = wheel_motor /\ current' = None)]_vars
    /\ [][(pc = "home_top" /\ robot = NoSession /\ pc' # pc)
             => pc' = "home_connect"]_vars
    /\ [][(pc # "home_pulse" /\ pc' = "home_pulse")
             => (i' = 0 /\ wheel_motor' = robot)]_vars

\* Homing has completed on a second session after a homing pulse failed on
\* the first: more than six homing pulses were sent.
C18_Witness ==
    /\ mode = "calendar" /\ pc = "main_top" /\ ~polled /\ i = 6
    /\ lostSession # NoSession /\ robot # lostSession /\ robot = sessions

\* A step of reader.py in which an except handler of main runs, and with it
\* robot.close(): connect has raised after its last attempt, a homing pulse
\* has raised, or control_wheel has raised.
HandlerStep ==
    \/ (pc \in {"home_connect", "main_connect"} /\ x' = ConnectTries)
    \/ (pc = "home_pulse" /\ pc' \in {"home_top", "crashed"})
    \/ (pc = "poll" /\ pc' \in {"main_top", "crashed"})

\* C19 (as stated): in calendar mode the motor handle is taken, pulses are
\* sent and close is called only while the session slot holds a session,
\* also inside the except handlers.
C19_NoOperationOnEmptySlot ==
    /\ [](pc \in {"home_pulse", "poll", "move"} => robot # NoSession)
    /\ [][HandlerStep => robot # NoSession]_vars

====
